---- MODULE Spec2Model ----
(***************************************************************************)
(* Model of the session state aggregator of the Economic Analysis agent:   *)
(* EconomicAnalysisAgent (agent_graph.py) folds the tool calls found in    *)
(* the messages returned by the LangGraph agent into self.state (todos,    *)
(* files, data_cache) and renders a result; EconomicAnalysisSystem         *)
(* (main.py) wraps the module-level singleton agent.                       *)
(*                                                                         *)
(* Conventions                                                             *)
(*   - a Python dict that is iterated (files, data_cache) is a sequence of *)
(*     entries in insertion order: assigning to an existing key keeps the  *)
(*     key's position, assigning to a new key appends;                     *)
(*   - a Python str whose characters the code inspects (a filename) is a   *)
(*     sequence of one-character strings;                                  *)
(*   - datetime.now() is a logical clock: every read returns the clock and *)
(*     advances it by one;                                                 *)
(*   - a JSON value that may be ill-typed is tagged: JList(<<..>>), JNull. *)
(***************************************************************************)
EXTENDS Integers, Sequences, FiniteSets, TLC

VARIABLES
    todos,        \* economic_agent.state["todos"]
    files,        \* economic_agent.state["files"], in insertion order
    data_cache,   \* economic_agent.state["data_cache"], in insertion order
    clock,        \* the next value datetime.now() returns
    session_id,   \* EconomicAnalysisSystem.session_id of the current system
    messages,     \* result["messages"] of the last collaborator invocation
    result,       \* the dict the last turn returned to its caller
    op,           \* which entry point the last step ran
    invocation,   \* what the collaborator did in the last turn
    calls_used,   \* tool calls folded so far (bounds the run)
    turns,        \* turns run so far (bounds the run)
    inflight,     \* the run_analysis_async coroutines of the event loop, by task
    sent,         \* what the last turn handed to the collaborator
    channels,     \* the reducer-annotated keys of an EconomicAgentState (state.py)
    node_output,  \* the last update merged into channels: its key and value
    retrieval     \* the call of DataRetrievalAgent.run in progress (sub_agents.py)

vars == <<todos, files, data_cache, clock, session_id, messages, result, op,
          invocation, calls_used, turns, inflight, sent, channels, node_output, retrieval>>

(***************************************************************************)
(* Bounds of the model.                                                    *)
(***************************************************************************)
MaxTurns == 3
MaxCalls == 3
MaxSessions == 2
\* state.py reducers: longest merged TODO list, largest iteration count and
\* latest timestamp an update carries
MaxTodos == 3
MaxIterations == 2
MaxStamp == 3
\* sub_agents.py: most tool calls in one LLM response
MaxToolCalls == 2
\* for i in range(5)
RetrievalIterations == 5

\* Python's None where a string is expected
None == "None"
\* a timestamp key that is absent from its dict
NoTime == 0
\* tool_args.get("todo_id") when the key is absent: equal to no task's id
NoId == 0

(***************************************************************************)
(* Strings the code inspects character by character.                       *)
(***************************************************************************)
notes_md == <<"n", "o", "t", "e", "s">>
report_draft == <<"r", "e", "p", "o", "r", "t", "1">>
Report_Final == <<"R", "e", "p", "o", "r", "t", "2">>
REPORT == <<"r", "e", "p", "o", "r", "t">>

\* str.lower() on the characters the model uses
LowerChar(c) ==
    CASE c = "R" -> "r"
      [] c = "E" -> "e"
      [] c = "P" -> "p"
      [] c = "O" -> "o"
      [] c = "T" -> "t"
      [] OTHER -> c

lower(s) == [i \in 1..Len(s) |-> LowerChar(s[i])]

\* Python's `needle in haystack` for str
Contains(haystack, needle) ==
    \E i \in 0..(Len(haystack) - Len(needle)) :
        \A j \in 1..Len(needle) : haystack[i + j] = needle[j]

(***************************************************************************)
(* Python dict helpers.                                                    *)
(***************************************************************************)
\* d.get(k, default) on a dict modelled as a record
Get(d, k, default) == IF k \in DOMAIN d THEN d[k] ELSE default

\* position of key k in an insertion-ordered dict, 0 when absent
KeyIndex(d, k) ==
    IF \E i \in 1..Len(d) : d[i].k = k
    THEN CHOOSE i \in 1..Len(d) : d[i].k = k
    ELSE 0

HasKey(d, k) == KeyIndex(d, k) # 0

\* d[k]
Lookup(d, k) == d[KeyIndex(d, k)].v

\* d[k] = v : an existing key keeps its position, a new key is appended
DictSet(d, k, v) ==
    IF HasKey(d, k)
    THEN [d EXCEPT ![KeyIndex(d, k)] = [k |-> k, v |-> v]]
    ELSE Append(d, [k |-> k, v |-> v])

\* list(d.keys())
Keys(d) == [i \in 1..Len(d) |-> d[i].k]

(***************************************************************************)
(* JSON values and message contents.                                       *)
(***************************************************************************)
JList(items) == [tag |-> "list", items |-> items]
JNull == [tag |-> "null"]
JObject(d) == [tag |-> "object", dict |-> d]

\* a message content that is JSON text encoding value v
JsonText(v) == [fmt |-> "json", value |-> v]
\* a message content that is not JSON
PlainText(s) == [fmt |-> "text", value |-> s]

\* json.loads(content): ok = FALSE when it raises
json_loads(content) ==
    IF content.fmt = "json"
    THEN [ok |-> TRUE, data |-> content.value]
    ELSE [ok |-> FALSE, data |-> JNull]

(***************************************************************************)
(* Messages of the collaborator (langchain_core.messages).                 *)
(***************************************************************************)
HumanMessage(content) ==
    [type |-> "human", content |-> content, tool_calls |-> <<>>, tool_call_id |-> 0]

AIMessage(content, tool_calls) ==
    [type |-> "ai", content |-> content, tool_calls |-> tool_calls, tool_call_id |-> 0]

ToolMessage(content, tool_call_id) ==
    [type |-> "tool", content |-> content, tool_calls |-> <<>>,
     tool_call_id |-> tool_call_id]

\* isinstance(message, AIMessage) and hasattr(message, 'tool_calls') and message.tool_calls
HasToolCalls(message) == message.type = "ai" /\ Len(message.tool_calls) > 0

\* messages.index(message): the first position holding an equal message
index(msgs, message) == CHOOSE i \in 1..Len(msgs) :
    /\ msgs[i] = message
    /\ \A j \in 1..(i - 1) : msgs[j] # message

(***************************************************************************)
(* EconomicAnalysisAgent._process_result: the fold.                        *)
(* The loop state st holds self.state's three tables, the local            *)
(* todo_counter, the clock, and raised = TRUE once a statement raised (the *)
(* exception leaves _process_result, so nothing after it runs).            *)
(***************************************************************************)
NoArgs == [none |-> None]

\* a task dict whose id is taken from the clock instead of the counter
NewTodoClockId(id, task, now) ==
    [id |-> now, task |-> task, status |-> "pending", created_at |-> now,
     completed_at |-> NoTime]

\* the dict appended for one task of a write_todos call (no completed_at key)
NewTodo(id, task, now) ==
    [id |-> id, task |-> task, status |-> "pending", created_at |-> now,
     completed_at |-> NoTime]

RECURSIVE WriteTodosLoopDistinct(_, _, _)
\* a loop that skips a task whose description the list already holds
WriteTodosLoopDistinct(st, tasks, i) ==
    IF i > Len(tasks) THEN st
    ELSE IF \E k \in 1..Len(st.todos) : st.todos[k].task = tasks[i]
    THEN WriteTodosLoopDistinct(st, tasks, i + 1)
    ELSE WriteTodosLoopDistinct(
            [st EXCEPT !.todo_counter = @ + 1,
                       !.todos = Append(@, NewTodo(st.todo_counter + 1, tasks[i], st.clock)),
                       !.clock = @ + 1],
            tasks, i + 1)

RECURSIVE WriteTodosLoop(_, _, _)
\* for task in tasks: todo_counter += 1; self.state["todos"].append({...})
WriteTodosLoop(st, tasks, i) ==
    IF i > Len(tasks) THEN st
    ELSE WriteTodosLoop(
            [st EXCEPT !.todo_counter = @ + 1,
                       !.todos = Append(@, NewTodo(st.todo_counter + 1, tasks[i], st.clock)),
                       !.clock = @ + 1],
            tasks, i + 1)

\* tool_name == "write_todos"
HandleWriteTodos(st, tool_args) ==
    LET tasks == Get(tool_args, "tasks", JList(<<>>)) IN
    IF tasks.tag # "list"
    THEN [st EXCEPT !.raised = TRUE]      \* TypeError: object is not iterable
    ELSE WriteTodosLoop(st, tasks.items, 1)

\* a loop body that clears completed_at when the new status is not completed
UpdateOneTodoClears(todo, todo_id, status, now) ==
    IF todo.id = todo_id
    THEN [todo EXCEPT !.status = status,
                      !.completed_at = IF status = "completed" THEN now ELSE NoTime]
    ELSE todo

\* a loop body that stamps the task it updates: created_at = now
UpdateOneTodoRestamps(todo, todo_id, status, now) ==
    IF todo.id = todo_id
    THEN [todo EXCEPT !.status = status,
                      !.created_at = now,
                      !.completed_at = IF status = "completed" THEN now ELSE @]
    ELSE todo

\* a loop body that matches every task up to the given id: todo.get("id") <= todo_id
UpdateOneTodoAtMost(todo, todo_id, status, now) ==
    IF todo.id <= todo_id
    THEN [todo EXCEPT !.status = status,
                      !.completed_at = IF status = "completed" THEN now ELSE @]
    ELSE todo

\* the body of `for todo in self.state["todos"]` for one todo
UpdateOneTodo(todo, todo_id, status, now) ==
    IF todo.id = todo_id
    THEN [todo EXCEPT !.status = status,
                      !.completed_at = IF status = "completed" THEN now ELSE @]
    ELSE todo

RECURSIVE UpdateTodoLoop(_, _, _, _)
UpdateTodoLoop(st, todo_id, status, i) ==
    IF i > Len(st.todos) THEN st
    ELSE LET todo == st.todos[i]
             reads == todo.id = todo_id /\ status = "completed"
         IN UpdateTodoLoop(
                [st EXCEPT !.todos[i] = UpdateOneTodo(todo, todo_id, status, st.clock),
                           !.clock = IF reads THEN @ + 1 ELSE @],
                todo_id, status, i + 1)

\* tool_name == "update_todo"
HandleUpdateTodo(st, tool_args) ==
    UpdateTodoLoop(st, Get(tool_args, "todo_id", NoId), Get(tool_args, "status", None), 1)

\* the dict stored for a written file
NewFile(content, now) == [content |-> content, created_at |-> now]

\* a branch that tests the filename only: if filename:
HandleWriteFileAnyContent(st, tool_args) ==
    LET filename == Get(tool_args, "filename", <<>>)
        content == Get(tool_args, "content", None)
    IN IF Len(filename) > 0
       THEN [st EXCEPT !.files = DictSet(@, filename, NewFile(content, st.clock)),
                       !.clock = @ + 1]
       ELSE st

\* tool_name == "write_file"; a missing filename is the empty name (both falsy)
HandleWriteFile(st, tool_args) ==
    LET filename == Get(tool_args, "filename", <<>>)
        content == Get(tool_args, "content", None)
    IN IF Len(filename) > 0 /\ content \notin {None, ""}
       THEN [st EXCEPT !.files = DictSet(@, filename, NewFile(content, st.clock)),
                       !.clock = @ + 1]
       ELSE st

RECURSIVE CacheLoop(_, _, _, _)
\* for next_msg in messages[msg_index + 1:]  (j is the position examined)
CacheLoop(st, msgs, series_id, j) ==
    IF j > Len(msgs) THEN st
    ELSE LET parsed == json_loads(msgs[j].content) IN
         IF ~parsed.ok
         THEN CacheLoop(st, msgs, series_id, j + 1)          \* except: pass
         ELSE IF parsed.data.tag # "object"
         THEN CacheLoop(st, msgs, series_id, j + 1)          \* TypeError, except: pass
         ELSE IF "error" \notin DOMAIN parsed.data.dict
         THEN [st EXCEPT !.data_cache = DictSet(@, series_id, parsed.data)]   \* break
         ELSE st                                                               \* break

\* tool_name in ["fetch_fred_series", "calculate_statistics"]
HandleCache(st, msgs, message, tool_args) ==
    LET series_id == Get(tool_args, "series_id", None) IN
    IF series_id \notin {None, ""}
    THEN CacheLoop(st, msgs, series_id, index(msgs, message) + 1)
    ELSE st

\* a loop body with one more branch: delete_file removes the file
ProcessToolCallDeletes(st, msgs, message, tool_call) ==
    LET tool_name == Get(tool_call, "name", "")
        tool_args == Get(tool_call, "args", NoArgs)
    IN CASE tool_name = "write_todos" -> HandleWriteTodos(st, tool_args)
         [] tool_name = "update_todo" -> HandleUpdateTodo(st, tool_args)
         [] tool_name = "write_file" -> HandleWriteFile(st, tool_args)
         [] tool_name \in {"fetch_fred_series", "calculate_statistics"} ->
                HandleCache(st, msgs, message, tool_args)
         [] tool_name = "delete_file" ->
                [st EXCEPT !.files = SelectSeq(@, LAMBDA e : e.k # tool_args.filename)]
         [] OTHER -> st

\* a loop body with one more branch: create_analysis_report stores its title as
\* a file
ProcessToolCallStoresReport(st, msgs, message, tool_call) ==
    LET tool_name == Get(tool_call, "name", "")
        tool_args == Get(tool_call, "args", NoArgs)
    IN CASE tool_name = "write_todos" -> HandleWriteTodos(st, tool_args)
         [] tool_name = "update_todo" -> HandleUpdateTodo(st, tool_args)
         [] tool_name = "write_file" -> HandleWriteFile(st, tool_args)
         [] tool_name \in {"fetch_fred_series", "calculate_statistics"} ->
                HandleCache(st, msgs, message, tool_args)
         [] tool_name = "create_analysis_report" ->
                [st EXCEPT !.files = DictSet(@, REPORT, NewFile(tool_args.title, st.clock)),
                           !.clock = @ + 1]
         [] OTHER -> st

\* the body of `for tool_call in message.tool_calls`
ProcessToolCall(st, msgs, message, tool_call) ==
    LET tool_name == Get(tool_call, "name", "")
        tool_args == Get(tool_call, "args", NoArgs)
    IN CASE tool_name = "write_todos" -> HandleWriteTodos(st, tool_args)
         [] tool_name = "update_todo" -> HandleUpdateTodo(st, tool_args)
         [] tool_name = "write_file" -> HandleWriteFile(st, tool_args)
         [] tool_name \in {"fetch_fred_series", "calculate_statistics"} ->
                HandleCache(st, msgs, message, tool_args)
         [] OTHER -> st

RECURSIVE ProcessToolCallsBackwards(_, _, _, _)
\* a loop that visits the tool calls of a message last to first
ProcessToolCallsBackwards(st, msgs, message, k) ==
    IF st.raised \/ k > Len(message.tool_calls) THEN st
    ELSE ProcessToolCallsBackwards(
            ProcessToolCall(st, msgs, message,
                            message.tool_calls[Len(message.tool_calls) + 1 - k]),
            msgs, message, k + 1)

RECURSIVE ProcessToolCalls(_, _, _, _)
\* for tool_call in message.tool_calls
ProcessToolCalls(st, msgs, message, k) ==
    IF st.raised \/ k > Len(message.tool_calls) THEN st
    ELSE ProcessToolCalls(ProcessToolCall(st, msgs, message, message.tool_calls[k]),
                          msgs, message, k + 1)

RECURSIVE ProcessMessages(_, _, _)
\* for message in messages
ProcessMessages(st, msgs, i) ==
    IF st.raised \/ i > Len(msgs) THEN st
    ELSE ProcessMessages(
            IF HasToolCalls(msgs[i]) THEN ProcessToolCalls(st, msgs, msgs[i], 1) ELSE st,
            msgs, i + 1)

\* a fold that restarts the numbering: todo_counter = 0
InitialTodoCounterRestarts(td) == 0

\* todo_counter = len(self.state["todos"])
InitialTodoCounter(td) == Len(td)

\* a fold that rebuilds the three tables from the log alone
process_result_rebuilds(td, fl, dc, now, res) ==
    ProcessMessages(
        [todos |-> <<>>, files |-> <<>>, data_cache |-> <<>>,
         todo_counter |-> 0, clock |-> now, raised |-> FALSE],
        Get(res, "messages", <<>>), 1)

\* _process_result(result) run on the tables (td, fl, dc) at time now
process_result(td, fl, dc, now, res) ==
    ProcessMessages(
        [todos |-> td, files |-> fl, data_cache |-> dc,
         todo_counter |-> InitialTodoCounter(td), clock |-> now, raised |-> FALSE],
        Get(res, "messages", <<>>), 1)

(***************************************************************************)
(* EconomicAnalysisAgent._format_results.                                  *)
(***************************************************************************)
RECURSIVE FinalResponseFrom(_, _)
\* for message in reversed(messages): the first AIMessage without tool calls
FinalResponseFrom(msgs, i) ==
    IF i = 0 THEN PlainText("")
    ELSE IF msgs[i].type = "ai" /\ ~HasToolCalls(msgs[i]) THEN msgs[i].content
    ELSE FinalResponseFrom(msgs, i - 1)

\* [t for t in todos if t.get("status") == "completed"]
CompletedTasks(td) == SelectSeq(td, LAMBDA t : t.status = "completed")
\* a filter that keeps the tasks not yet started: t.get("status") == "pending"
PendingTasksNotStarted(td) == SelectSeq(td, LAMBDA t : t.status = "pending")
\* [t for t in todos if t.get("status") != "completed"]
PendingTasks(td) == SelectSeq(td, LAMBDA t : t.status # "completed")

\* a case-sensitive test: "report" in filename
IsReportNameExact(filename) == Contains(filename, REPORT)

\* "report" in filename.lower()
IsReportName(filename) == Contains(lower(filename), REPORT)

RECURSIVE ReportFrom(_, _)
\* for filename, file_data in self.state["files"].items(): first match, then break
ReportFrom(fl, i) ==
    IF i > Len(fl) THEN None
    ELSE IF IsReportName(fl[i].k) THEN Get(fl[i].v, "content", "")
    ELSE ReportFrom(fl, i + 1)

ReportContent(fl) == ReportFrom(fl, 1)

\* the session id as given, without a fallback
SessionAsGiven(sid) == sid

\* session_id or "default"
SessionOrDefault(sid) == IF sid \in {None, ""} THEN "default" ELSE sid

format_results(td, fl, dc, res, query, sid) ==
    LET msgs == Get(res, "messages", <<>>) IN
    [success |-> TRUE,
     session_id |-> SessionOrDefault(sid),
     query |-> query,
     response |-> FinalResponseFrom(msgs, Len(msgs)),
     report |-> ReportContent(fl),
     completed_tasks |-> CompletedTasks(td),
     pending_tasks |-> PendingTasks(td),
     data_sources |-> Keys(dc),
     files_created |-> Keys(fl),
     total_messages |-> Len(msgs)]

(***************************************************************************)
(* EconomicAnalysisAgent._build_context_message and the input of a turn.   *)
(* The context is the list context_parts (joined with newlines by the      *)
(* code); a part is a line of fixed text, a task line or a line of names.  *)
(***************************************************************************)
Part(kind, id, text, names) == [kind |-> kind, id |-> id, text |-> text, names |-> names]
PLANNING_PROMPT == Part("planning_prompt", NoId, "Create a comprehensive plan", <<>>)
StartByPlanning == Part("fixed", NoId, "Start by creating a plan using write_todos tool.", <<>>)

\* lines 65-68: the header and one line "- [id] task" per pending task
PendingParts(pending) ==
    IF Len(pending) = 0 THEN <<>>
    ELSE <<Part("fixed", NoId, "Current pending tasks:", <<>>)>>
         \o [i \in 1..Len(pending) |-> Part("pending", pending[i].id, pending[i].task, <<>>)]
\* lines 70-73: the header and one line per completed task
CompletedParts(completed) ==
    IF Len(completed) = 0 THEN <<>>
    ELSE <<Part("fixed", NoId, "Completed tasks:", <<>>)>>
         \o [i \in 1..Len(completed) |-> Part("completed", NoId, completed[i].task, <<>>)]

\* lines 59-79: context_parts before the planning instruction is considered
ContextParts(td, fl, dc) ==
    (IF Len(td) > 0
     THEN PendingParts(SelectSeq(td, LAMBDA t : t.status # "completed"))
          \o CompletedParts(SelectSeq(td, LAMBDA t : t.status = "completed"))
     ELSE <<>>)
    \o (IF Len(fl) > 0 THEN <<Part("files", NoId, "Available files:", Keys(fl))>> ELSE <<>>)
    \o (IF Len(dc) > 0 THEN <<Part("cache", NoId, "Cached data series:", Keys(dc))>> ELSE <<>>)

\* a context that asks for a plan whenever no task is pending
build_context_message_when_idle(td, fl, dc) ==
    LET parts == ContextParts(td, fl, dc)
        all == IF Len(SelectSeq(td, LAMBDA t : t.status # "completed")) = 0
               THEN <<PLANNING_PROMPT>> \o parts ELSE parts
    IN IF Len(all) > 0 THEN all ELSE <<StartByPlanning>>

\* _build_context_message()
build_context_message(td, fl, dc) ==
    LET parts == ContextParts(td, fl, dc)
        all == IF Len(td) = 0 THEN <<PLANNING_PROMPT>> \o parts ELSE parts
    IN IF Len(all) > 0 THEN all ELSE <<StartByPlanning>>

\* lines 100-107: the session_id analyze_sync / analyze was called with and what
\* it builds for the collaborator besides the query: the context of the
\* HumanMessage and the thread of the checkpointer
Request(td, fl, dc, sid) ==
    [session_id |-> sid,
     thread_id |-> SessionOrDefault(sid),
     context |-> build_context_message(td, fl, dc)]
\* no turn has run yet
NothingSent == [session_id |-> None, thread_id |-> None, context |-> <<>>]

\* the dict built in the except branch of analyze_sync / analyze
AgentFailure(error, query, sid) ==
    [success |-> FALSE, error |-> error, session_id |-> sid, query |-> query]

(***************************************************************************)
(* One turn of the agent.  A turn yields the tables and the clock after    *)
(* it, the messages it folded and the dict it returns.                     *)
(***************************************************************************)
Turn(td, fl, dc, now, msgs, res) ==
    [todos |-> td, files |-> fl, data_cache |-> dc, clock |-> now,
     messages |-> msgs, result |-> res]

\* a turn that folds the log into a new, empty state and keeps that one
FoldAndFormatFresh(td, fl, dc, now, res, query, sid) ==
    LET st == process_result(<<>>, <<>>, <<>>, now, res) IN
    IF st.raised
    THEN Turn(st.todos, st.files, st.data_cache, st.clock, Get(res, "messages", <<>>),
              AgentFailure("TypeError", query, sid))
    ELSE Turn(st.todos, st.files, st.data_cache, st.clock, Get(res, "messages", <<>>),
              format_results(st.todos, st.files, st.data_cache, res, query, sid))

\* lines 120-124 and the except branch, once the collaborator has returned res
FoldAndFormat(td, fl, dc, now, res, query, sid) ==
    LET st == process_result(td, fl, dc, now, res) IN
    IF st.raised
    THEN Turn(st.todos, st.files, st.data_cache, st.clock, Get(res, "messages", <<>>),
              AgentFailure("TypeError", query, sid))
    ELSE Turn(st.todos, st.files, st.data_cache, st.clock, Get(res, "messages", <<>>),
              format_results(st.todos, st.files, st.data_cache, res, query, sid))

\* an except branch that also re-initialises self.state
analyze_sync_resets(td, fl, dc, now, query, sid, outcome) ==
    IF outcome.raises
    THEN Turn(<<>>, <<>>, <<>>, now, <<>>, AgentFailure(outcome.error, query, sid))
    ELSE FoldAndFormat(td, fl, dc, now, [messages |-> outcome.messages], query, sid)

\* analyze_sync(query, session_id); outcome is what self.agent.invoke did
analyze_sync(td, fl, dc, now, query, sid, outcome) ==
    IF outcome.raises
    THEN Turn(td, fl, dc, now, <<>>, AgentFailure(outcome.error, query, sid))
    ELSE FoldAndFormat(td, fl, dc, now, [messages |-> outcome.messages], query, sid)

\* analyze(query, session_id); stream is what self.agent.astream did: it raised,
\* or it yielded stream.chunks and ended
analyze(td, fl, dc, now, query, sid, stream) ==
    IF stream.raises
    THEN Turn(td, fl, dc, now, <<>>, AgentFailure(stream.error, query, sid))
    ELSE IF Len(stream.chunks) = 0
    THEN Turn(td, fl, dc, now, <<>>, AgentFailure("No result from agent", query, sid))
    ELSE FoldAndFormat(td, fl, dc, now, stream.chunks[Len(stream.chunks)], query, sid)

(***************************************************************************)
(* EconomicAnalysisSystem (main.py).                                       *)
(***************************************************************************)
\* the dict built in the except branch of run_analysis / run_analysis_async
SystemFailure(error) == [success |-> FALSE, error |-> error]

\* lines 41-48: _display_results(results) then return results, unless printing raised
Displayed(turn, display_raises) ==
    IF display_raises THEN [turn EXCEPT !.result = SystemFailure("OSError")] ELSE turn

run_analysis(td, fl, dc, now, sid, query, outcome, display_raises) ==
    Displayed(analyze_sync(td, fl, dc, now, query, sid, outcome), display_raises)

run_analysis_async(td, fl, dc, now, sid, query, stream, display_raises) ==
    Displayed(analyze(td, fl, dc, now, query, sid, stream), display_raises)

\* f"session_{...}": the name of the n-th system constructed
SessionName(n) ==
    CASE n = 1 -> "session_1"
      [] n = 2 -> "session_2"
      [] n = 3 -> "session_3"
      [] OTHER -> "session_4"

(***************************************************************************)
(* The collaborator: what one run of the LangGraph ReAct agent returns.    *)
(* A run is a sequence of tool calls, each with the content of the         *)
(* ToolMessage the tool node answered it with; consecutive calls are       *)
(* grouped into AI messages (an AI message carries one or more calls and   *)
(* is followed by their ToolMessages in call order), and the run ends with *)
(* an AI message without tool calls.                                       *)
(***************************************************************************)
Entry(name, args, content) == [name |-> name, args |-> args, content |-> content]

\* contents of tool results
FetchOk(series_id) == JsonText(JObject([series_id |-> series_id, data_points |-> "24"]))
StatsOk(series_id) == JsonText(JObject([series_id |-> series_id, mean |-> "2.5"]))
ToolError == JsonText(JObject([error |-> "Failed"]))
SearchOk == JsonText(JObject([search_text |-> "gdp", count |-> "1"]))

write_todos(tasks) == Entry("write_todos", [tasks |-> tasks], PlainText("Created TODO list"))
update_todo(todo_id, status) ==
    Entry("update_todo", [todo_id |-> todo_id, status |-> status], PlainText("Updated TODO"))
\* update_todo called with its optional notes argument
update_todo_with_notes(todo_id, status, notes) ==
    Entry("update_todo", [todo_id |-> todo_id, status |-> status, notes |-> notes],
          PlainText("Updated TODO with notes"))
\* an update_todo call the model emitted without a status: the tool node answers
\* with a validation error, the call stays in the AI message
update_todo_without_status(todo_id) ==
    Entry("update_todo", [todo_id |-> todo_id], PlainText("Error: status field required"))
write_file(filename, content) ==
    Entry("write_file", [filename |-> filename, content |-> content],
          PlainText("Successfully wrote"))
fetch_fred_series(series_id, content) ==
    Entry("fetch_fred_series", [series_id |-> series_id], content)
calculate_statistics(series_id, content) ==
    Entry("calculate_statistics", [series_id |-> series_id], content)
search_fred_series == Entry("search_fred_series", [search_text |-> "gdp"], SearchOk)
ls == Entry("ls", [path |-> "/"], PlainText("Listing files in /"))
read_file(filename) ==
    Entry("read_file", [filename |-> filename], PlainText("Reading file"))
\* write_file calls the model emitted without one of the two arguments
write_file_without_content(filename) ==
    Entry("write_file", [filename |-> filename], PlainText("Error: content field required"))
write_file_without_filename(content) ==
    Entry("write_file", [content |-> content], PlainText("Error: filename field required"))
edit_file(filename, old_content, new_content) ==
    Entry("edit_file",
          [filename |-> filename, old_content |-> old_content, new_content |-> new_content],
          PlainText("Successfully edited"))
delete_file(filename) ==
    Entry("delete_file", [filename |-> filename], PlainText("Successfully deleted"))
create_analysis_report(title) ==
    Entry("create_analysis_report", [title |-> title], PlainText("# title ..."))

\* the tool calls a run is made of, by the part of the state they touch
TodoCalls ==
    {write_todos(JList(<<"a">>)), write_todos(JList(<<"a", "b">>)), write_todos(JNull),
     update_todo(1, "completed"), update_todo(1, "in_progress"),
     update_todo(2, "completed"), ls}

FileCalls ==
    {write_file(f, c) : f \in {notes_md, report_draft, Report_Final}, c \in {"c1", "c2"}}
    \cup {ls}

CacheCalls ==
    {fetch_fred_series("GDP", FetchOk("GDP")), fetch_fred_series("GDP", ToolError),
     fetch_fred_series("UNRATE", FetchOk("UNRATE")), fetch_fred_series("UNRATE", ToolError),
     calculate_statistics("GDP", StatsOk("GDP")), search_fred_series, ls}

\* update_todo in every shape the collaborator can emit it
UpdateCalls ==
    {write_todos(JList(<<"a", "b">>)),
     update_todo(1, "completed"),
     update_todo_with_notes(1, "in_progress", "n1"),
     update_todo_with_notes(1, "completed", "n2"),
     update_todo_without_status(1),
     update_todo(2, "blocked"),
     write_file(notes_md, "c1")}

\* two statuses for one task, two contents for one file
OrderCalls ==
    {write_todos(JList(<<"a">>)),
     update_todo(1, "completed"), update_todo(1, "in_progress"),
     write_file(notes_md, "c1"), write_file(notes_md, "c2")}

\* one call per table a turn can grow
AsyncCalls == {write_todos(JList(<<"a">>)), write_file(report_draft, "c1")}

\* tools the fold has no branch for, next to one call per branch
OtherCalls ==
    {search_fred_series, ls, read_file(notes_md), create_analysis_report("t"),
     write_todos(JList(<<"a">>)), write_file(notes_md, "c1"),
     fetch_fred_series("GDP", ToolError)}

\* calls that create state and calls that are meant to change or remove it
KeepCalls ==
    {write_todos(JList(<<"a">>)), write_file(report_draft, "c1"), write_file(notes_md, "c1"),
     fetch_fred_series("GDP", FetchOk("GDP")),
     edit_file(report_draft, "c1", "c2"), delete_file(report_draft)}

\* write_file with and without a usable filename and content
BlankCalls ==
    {write_file(notes_md, "c1"), write_file(report_draft, "c2"),
     write_file(notes_md, ""), write_file_without_content(notes_md),
     write_file(<<>>, "c2"), write_file_without_filename("c2")}

\* plans and a completion, for turns that run on one thread
ThreadCalls ==
    {write_todos(JList(<<"a">>)), write_todos(JList(<<"a", "b">>)),
     update_todo(1, "completed")}

MixedCalls ==
    {write_todos(JList(<<"a", "b">>)), write_todos(JNull), write_file(report_draft, "c1")}

EntrySeqs(U, n) == UNION {[1..k -> U] : k \in 0..n}

\* where an AI message ends: breaks[i] = TRUE when call i is the last of its message
Breaks(k) == [1..(k - 1) -> BOOLEAN]

ToolCall(entry, id) == [name |-> entry.name, args |-> entry.args, id |-> id]

RECURSIVE Rounds(_, _, _, _, _, _)
Rounds(es, breaks, i, calls, answers, acc) ==
    IF i > Len(es) THEN acc
    ELSE LET calls2 == Append(calls, ToolCall(es[i], i))
             answers2 == Append(answers, ToolMessage(es[i].content, i))
         IN IF i = Len(es) \/ breaks[i]
            THEN Rounds(es, breaks, i + 1, <<>>, <<>>,
                        acc \o <<AIMessage(PlainText(""), calls2)>> \o answers2)
            ELSE Rounds(es, breaks, i + 1, calls2, answers2, acc)

\* the messages of a run: the request, the rounds, the closing answer
RunMessages(es, breaks) ==
    <<HumanMessage(PlainText("request"))>>
    \o Rounds(es, breaks, 1, <<>>, <<>>, <<>>)
    \o <<AIMessage(PlainText("answer"), <<>>)>>

RECURSIVE CountToolCalls(_, _)
CountToolCalls(msgs, i) ==
    IF i > Len(msgs) THEN 0
    ELSE Len(msgs[i].tool_calls) + CountToolCalls(msgs, i + 1)

RECURSIVE ChunksFrom(_, _, _)
\* astream in its default mode: one {node: {"messages": [...]}} update per node run
ChunksFrom(msgs, i, acc) ==
    IF i > Len(msgs) THEN acc
    ELSE IF msgs[i].type = "ai"
    THEN ChunksFrom(msgs, i + 1, Append(acc, [agent |-> [messages |-> <<msgs[i]>>]]))
    ELSE IF msgs[i].type = "tool"
    THEN IF Len(acc) > 0 /\ "tools" \in DOMAIN acc[Len(acc)]
         THEN ChunksFrom(msgs, i + 1,
                 [acc EXCEPT ![Len(acc)].tools.messages = Append(@, msgs[i])])
         ELSE ChunksFrom(msgs, i + 1, Append(acc, [tools |-> [messages |-> <<msgs[i]>>]]))
    ELSE ChunksFrom(msgs, i + 1, acc)

Chunks(msgs) == ChunksFrom(msgs, 1, <<>>)

CollaboratorErrors == {"TimeoutError"}
Queries == {"q1", "q2"}

\* the invocation raised (timeout, transport error, malformed response)
Raised(error) ==
    [kind |-> "raised", raises |-> TRUE, error |-> error, messages |-> <<>>, chunks |-> <<>>]
\* the invocation ran to its end: invoke returns msgs, astream yields Chunks(msgs)
Returned(msgs) ==
    [kind |-> "returned", raises |-> FALSE, error |-> None, messages |-> msgs,
     chunks |-> Chunks(msgs)]
\* a stream that ends without a chunk
Silent ==
    [kind |-> "silent", raises |-> FALSE, error |-> None, messages |-> <<>>, chunks |-> <<>>]

(***************************************************************************)
(* state.py: the reducers of EconomicAgentState.  A graph over this state  *)
(* merges a node's update for a key into the key's value with the key's    *)
(* reducer: value = reducer(value, update).  Timestamps are ISO strings in *)
(* the code (compared as strings, which is their order in time); here they *)
(* are numbers, NoTime standing for the empty string.                      *)
(***************************************************************************)
\* [todo for todo in right if todo["task"] not in existing_tasks]
NewTodosOf(left, right) ==
    SelectSeq(right, LAMBDA todo : ~\E i \in 1..Len(left) : left[i].task = todo.task)

\* add_todos(left, right)
add_todos(left, right) ==
    IF Len(left) = 0 THEN right
    ELSE IF Len(right) = 0 THEN left
    ELSE left \o NewTodosOf(left, right)

update_last_updated(left, right) ==
    IF left = NoTime THEN right
    ELSE IF right = NoTime THEN left
    ELSE IF left >= right THEN left ELSE right

update_iteration_count(left, right) == IF left >= right THEN left ELSE right

\* a reducer that keeps the last value written
update_should_continue_last(left, right) == right

update_should_continue(left, right) == left \/ right

\* the reducer-annotated keys of create_initial_state() (next_step aside),
\* created at time 1
create_initial_state ==
    [todos |-> <<>>, last_updated |-> 1, iteration_count |-> 0, should_continue |-> TRUE]

NoOutput == [key |-> None, value |-> None]

\* the TODO items an update carries: two items with one task text, one with another
TodoItems == {[id |-> 1, task |-> "a"], [id |-> 2, task |-> "a"], [id |-> 3, task |-> "b"]}
TodoLists == UNION {[1..k -> TodoItems] : k \in 0..2}

\* a step of the graph leaves the agent and its callers alone
AgentUnchanged ==
    UNCHANGED <<todos, files, data_cache, clock, session_id, messages, result,
                invocation, calls_used, turns, inflight, sent, retrieval>>

\* a node returns {"todos": right}
MergeTodos ==
    /\ \E right \in TodoLists :
          /\ Len(channels.todos) + Len(right) <= MaxTodos
          /\ channels' = [channels EXCEPT !.todos = add_todos(@, right)]
          /\ node_output' = [key |-> "todos", value |-> right]
    /\ op' = "add_todos"
    /\ AgentUnchanged

\* a node returns {"last_updated": right}
MergeLastUpdated ==
    /\ \E right \in 0..MaxStamp :
          /\ channels' = [channels EXCEPT !.last_updated = update_last_updated(@, right)]
          /\ node_output' = [key |-> "last_updated", value |-> right]
    /\ op' = "update_last_updated"
    /\ AgentUnchanged

\* a node returns {"iteration_count": right}
MergeIterationCount ==
    /\ \E right \in 0..MaxIterations :
          /\ channels' = [channels EXCEPT !.iteration_count = update_iteration_count(@, right)]
          /\ node_output' = [key |-> "iteration_count", value |-> right]
    /\ op' = "update_iteration_count"
    /\ AgentUnchanged

\* a node returns {"should_continue": right}
MergeShouldContinue ==
    /\ \E right \in BOOLEAN :
          /\ channels' = [channels EXCEPT !.should_continue = update_should_continue(@, right)]
          /\ node_output' = [key |-> "should_continue", value |-> right]
    /\ op' = "update_should_continue"
    /\ AgentUnchanged

\* the steps of a graph over EconomicAgentState: one key merged per step
NextReducers ==
    \/ MergeTodos
    \/ MergeLastUpdated
    \/ MergeIterationCount
    \/ MergeShouldContinue

(***************************************************************************)
(* sub_agents.py: DataRetrievalAgent.run.  One step of the model is one    *)
(* pass of `for i in range(5)`: the LLM is invoked and the tool calls of   *)
(* its response are executed; the pass that ends the loop also returns.    *)
(***************************************************************************)
\* self.tools: the ECONOMIC_TOOLS with "fred" or "search" in their name
RetrievalTools == <<"fetch_fred_series", "search_fred_series", "web_search">>

\* for tool in self.tools: if tool.name == tool_name: ... break
FirstTool(tool_name) ==
    IF \E k \in 1..Len(RetrievalTools) : RetrievalTools[k] = tool_name
    THEN CHOOSE k \in 1..Len(RetrievalTools) :
            /\ RetrievalTools[k] = tool_name
            /\ \A j \in 1..(k - 1) : RetrievalTools[j] # tool_name
    ELSE 0

\* the body of `for tool_call in response.tool_calls`; run holds results and
\* the number of tool.invoke calls of this pass.  ("fetch_fred_series" in
\* tool_name is a substring test; of the names of self.tools only
\* fetch_fred_series itself contains it.)
ExecuteToolCall(run, tool_call) ==
    IF FirstTool(tool_call.name) = 0 THEN run
    ELSE IF tool_call.raises
    THEN [run EXCEPT !.invoked = @ + 1, !.errors = Append(@, tool_call.name)]
    ELSE IF tool_call.name = "fetch_fred_series"
    THEN [run EXCEPT !.invoked = @ + 1,
                     !.data = DictSet(@, tool_call.args.series_id, tool_call.result),
                     !.series_retrieved = Append(@, tool_call.args.series_id)]
    ELSE [run EXCEPT !.invoked = @ + 1]

RECURSIVE ExecuteToolCalls(_, _, _)
ExecuteToolCalls(run, tool_calls, k) ==
    IF k > Len(tool_calls) THEN run
    ELSE ExecuteToolCalls(ExecuteToolCall(run, tool_calls[k]), tool_calls, k + 1)

\* a loop that goes on until a response carries no tool calls
LoopEndsOnAnswerOnly(response, i) == Len(response.tool_calls) = 0

\* the loop ends after pass i: `else: break`, or range(5) is exhausted
LoopEnds(response, i) == Len(response.tool_calls) = 0 \/ i = RetrievalIterations

\* no call of run is in progress
NotRunning ==
    [pc |-> "idle", invocations |-> 0, tool_calls |-> 0, invoked |-> 0,
     data |-> <<>>, series_retrieved |-> <<>>, errors |-> <<>>, message |-> None]

\* what the LLM can ask for: a tool call and what tool.invoke does with it
RetrievalCall(name, args, returns, raises) ==
    [name |-> name, args |-> args, result |-> returns, raises |-> raises]
RetrievalCalls ==
    {RetrievalCall("fetch_fred_series", [series_id |-> "GDP"], "gdp data", FALSE),
     RetrievalCall("fetch_fred_series", [none |-> None], "none", TRUE),
     RetrievalCall("search_fred_series", [search_text |-> "gdp"], "found", FALSE),
     RetrievalCall("calculate_statistics", [series_id |-> "GDP"], "none", FALSE)}
Responses ==
    {[content |-> c, tool_calls |-> tc] :
        c \in {"", "done"},
        tc \in UNION {[1..k -> RetrievalCalls] : k \in 0..MaxToolCalls}}

\* lines 43-59: run(request) up to the loop
RetrievalRun ==
    /\ retrieval.pc \in {"idle", "returned"}
    /\ retrieval' = [NotRunning EXCEPT !.pc = "running"]
    /\ op' = "retrieval_run"
    /\ UNCHANGED <<todos, files, data_cache, clock, session_id, messages, result,
                   invocation, calls_used, turns, inflight, sent, channels, node_output>>

\* lines 59-86: one pass of the loop, and the return when the loop ends with it
RetrievalPass ==
    /\ retrieval.pc = "running"
    /\ \E response \in Responses :
          LET run == ExecuteToolCalls([retrieval EXCEPT !.invoked = 0],
                                      response.tool_calls, 1)
              i == retrieval.invocations + 1
          IN retrieval' =
                [run EXCEPT !.invocations = i,
                            !.tool_calls = Len(response.tool_calls),
                            !.message = response.content,
                            !.pc = IF LoopEnds(response, i) THEN "returned" ELSE "running"]
    /\ op' = "retrieval_pass"
    /\ UNCHANGED <<todos, files, data_cache, clock, session_id, messages, result,
                   invocation, calls_used, turns, inflight, sent, channels, node_output>>

NextRetrieval == RetrievalRun \/ RetrievalPass

\* the asyncio tasks that run run_analysis_async on the one event loop
Tasks == {"t1", "t2"}

\* a coroutine that is not running
Idle == [pc |-> "idle", query |-> None, sid |-> None, stream |-> Silent, received |-> <<>>]
\* a coroutine suspended in `async for chunk in self.agent.astream(...)`: the
\* stream it iterates and the chunks it has been handed so far
Streaming(query, sid, stream) ==
    [pc |-> "streaming", query |-> query, sid |-> sid, stream |-> stream, received |-> <<>>]

(***************************************************************************)
(* The state machine.                                                      *)
(***************************************************************************)
Init ==
    /\ todos = <<>>
    /\ files = <<>>
    /\ data_cache = <<>>
    /\ clock = 1
    /\ session_id = SessionName(1)
    /\ messages = <<>>
    /\ result = [success |-> TRUE]
    /\ op = "init"
    /\ invocation = "none"
    /\ calls_used = 0
    /\ turns = 0
    /\ inflight = [t \in Tasks |-> Idle]
    /\ sent = NothingSent
    /\ channels = create_initial_state
    /\ node_output = NoOutput
    /\ retrieval = NotRunning

\* a turn's effects on the singleton agent and what its caller sees
Commit(turn, name, outcome) ==
    /\ todos' = turn.todos
    /\ files' = turn.files
    /\ data_cache' = turn.data_cache
    /\ clock' = turn.clock
    /\ messages' = turn.messages
    /\ result' = turn.result
    /\ op' = name
    /\ invocation' = outcome.kind
    /\ calls_used' = calls_used + CountToolCalls(outcome.messages, 1)
    /\ turns' = turns + 1
    /\ UNCHANGED <<session_id, inflight, channels, node_output, retrieval>>

\* system = EconomicAnalysisSystem(): a new session id, the same economic_agent
NewSystem ==
    /\ \E n \in 2..MaxSessions : session_id = SessionName(n - 1) /\ session_id' = SessionName(n)
    /\ op' = "new_system"
    /\ UNCHANGED <<todos, files, data_cache, clock, messages, result, invocation,
                   calls_used, turns, inflight, sent, channels, node_output, retrieval>>

\* system.run_analysis(query)
RunAnalysis(U, Q, D) ==
    /\ turns < MaxTurns
    /\ \E query \in Q, display_raises \in D :
       \E es \in EntrySeqs(U, MaxCalls - calls_used) :
       \E breaks \in Breaks(Len(es)) :
       \E outcome \in {Returned(RunMessages(es, breaks))}
                      \cup (IF Len(es) = 0 THEN {Raised(e) : e \in CollaboratorErrors} ELSE {}) :
          /\ Commit(run_analysis(todos, files, data_cache, clock, session_id, query,
                                 outcome, display_raises),
                    "run_analysis", outcome)
          /\ sent' = Request(todos, files, data_cache, session_id)

\* await system.run_analysis_async(query)
RunAnalysisAsync(U, Q, D) ==
    /\ turns < MaxTurns
    /\ \E query \in Q, display_raises \in D :
       \E es \in EntrySeqs(U, MaxCalls - calls_used) :
       \E breaks \in Breaks(Len(es)) :
       \E stream \in {Returned(RunMessages(es, breaks))}
                     \cup (IF Len(es) = 0
                           THEN {Raised(e) : e \in CollaboratorErrors} \cup {Silent}
                           ELSE {}) :
          /\ Commit(run_analysis_async(todos, files, data_cache, clock, session_id, query,
                                       stream, display_raises),
                    "run_analysis_async", stream)
          /\ sent' = Request(todos, files, data_cache, session_id)

(***************************************************************************)
(* run_analysis_async as the event loop runs it: a coroutine runs without   *)
(* interruption from one await to the next, and analyze awaits only in its  *)
(* `async for` (once per chunk, and once more for the end of the stream).   *)
(***************************************************************************)
\* lines 60-66 and 244-265: the call up to the first await of the stream
AnalyzeStart(t, U, Q) ==
    /\ inflight[t].pc = "idle"
    /\ turns < MaxTurns
    /\ \E query \in Q :
       \E es \in EntrySeqs(U, MaxCalls - calls_used) :
       \E breaks \in Breaks(Len(es)) :
       \E stream \in {Returned(RunMessages(es, breaks))}
                     \cup (IF Len(es) = 0 THEN {Silent} ELSE {}) :
          /\ inflight' = [inflight EXCEPT ![t] = Streaming(query, session_id, stream)]
          /\ sent' = Request(todos, files, data_cache, session_id)
          /\ calls_used' = calls_used + CountToolCalls(stream.messages, 1)
    /\ turns' = turns + 1
    /\ op' = "analyze_start"
    /\ UNCHANGED <<todos, files, data_cache, clock, session_id, messages, result,
                   invocation, channels, node_output, retrieval>>

\* lines 265-266: the stream hands over its next chunk: final_result = chunk
AnalyzeChunk(t) ==
    /\ inflight[t].pc = "streaming"
    /\ Len(inflight[t].received) < Len(inflight[t].stream.chunks)
    /\ inflight' = [inflight EXCEPT ![t].received =
                        Append(@, inflight[t].stream.chunks[Len(@) + 1])]
    /\ op' = "analyze_chunk"
    /\ UNCHANGED <<todos, files, data_cache, clock, session_id, messages, result,
                   invocation, calls_used, turns, sent, channels, node_output, retrieval>>

\* the state a coroutine's last step leaves: the turn's effects, the task idle
Finish(t, turn, kind) ==
    /\ todos' = turn.todos
    /\ files' = turn.files
    /\ data_cache' = turn.data_cache
    /\ clock' = turn.clock
    /\ messages' = turn.messages
    /\ result' = turn.result
    /\ invocation' = kind
    /\ inflight' = [inflight EXCEPT ![t] = Idle]
    /\ UNCHANGED <<session_id, calls_used, turns, sent, channels, node_output, retrieval>>

\* lines 268-286 and 68-71: the stream has ended; fold, format, display, return
AnalyzeEnd(t) ==
    /\ inflight[t].pc = "streaming"
    /\ Len(inflight[t].received) = Len(inflight[t].stream.chunks)
    /\ Finish(t, run_analysis_async(todos, files, data_cache, clock, inflight[t].sid,
                                    inflight[t].query,
                                    [inflight[t].stream EXCEPT !.chunks = inflight[t].received],
                                    FALSE),
              inflight[t].stream.kind)
    /\ op' = "analyze_end"

\* lines 277-286: the stream raises while the coroutine awaits it
AnalyzeRaise(t) ==
    /\ inflight[t].pc = "streaming"
    /\ \E e \in CollaboratorErrors :
          Finish(t, run_analysis_async(todos, files, data_cache, clock, inflight[t].sid,
                                      inflight[t].query, Raised(e), FALSE),
                 "raised")
    /\ op' = "analyze_raise"

\* economic_agent.analyze_sync(query, session_id) called without a system
AnalyzeSync(U, Q, S) ==
    /\ turns < MaxTurns
    /\ \E query \in Q, sid \in S :
       \E es \in EntrySeqs(U, MaxCalls - calls_used) :
       \E breaks \in Breaks(Len(es)) :
       \E outcome \in {Returned(RunMessages(es, breaks))}
                      \cup (IF Len(es) = 0 THEN {Raised(e) : e \in CollaboratorErrors} ELSE {}) :
          /\ Commit(analyze_sync(todos, files, data_cache, clock, query, sid, outcome),
                    "analyze_sync", outcome)
          /\ sent' = Request(todos, files, data_cache, sid)

\* system.run_analysis(query) with the checkpointer at work: the agent was
\* created with checkpointer=MemorySaver() and every turn of a system runs on
\* the thread of its session id, so invoke returns the messages of the thread
\* so far (here: the messages the turn before returned) followed by the new ones
RunAnalysisOnThread(U, Q) ==
    /\ turns < MaxTurns
    /\ \E query \in Q :
       \E es \in EntrySeqs(U, MaxCalls - calls_used - CountToolCalls(messages, 1)) :
       \E breaks \in Breaks(Len(es)) :
       \E outcome \in {Returned(messages \o RunMessages(es, breaks))} :
          /\ Commit(run_analysis(todos, files, data_cache, clock, session_id, query,
                                 outcome, FALSE),
                    "run_analysis", outcome)
          /\ sent' = Request(todos, files, data_cache, session_id)

\* every entry point, over a small mixed vocabulary of tool calls
Next ==
    \/ NewSystem
    \/ RunAnalysis(MixedCalls, Queries, BOOLEAN)
    \/ RunAnalysisAsync(MixedCalls, Queries, BOOLEAN)
Spec == Init /\ [][Next]_vars

\* synchronous turns of one system whose printing succeeds, over the tool calls
\* that touch one table
NextTodos == RunAnalysis(TodoCalls, {"q1"}, {FALSE})
SpecTodos == Init /\ [][NextTodos]_vars

NextFiles == RunAnalysis(FileCalls, {"q1"}, {FALSE})
SpecFiles == Init /\ [][NextFiles]_vars

NextCache == RunAnalysis(CacheCalls, {"q1"}, {FALSE})
SpecCache == Init /\ [][NextCache]_vars

NextUpdates == RunAnalysis(UpdateCalls, {"q1"}, {FALSE})
SpecUpdates == Init /\ [][NextUpdates]_vars

NextOrder == RunAnalysis(OrderCalls, {"q1"}, {FALSE})
SpecOrder == Init /\ [][NextOrder]_vars

\* coroutines of one event loop that run run_analysis_async for one system,
\* and synchronous turns made between their steps
NextAsync ==
    \/ \E t \in Tasks : AnalyzeStart(t, AsyncCalls, {"q1"})
    \/ \E t \in Tasks : AnalyzeChunk(t)
    \/ \E t \in Tasks : AnalyzeEnd(t)
    \/ \E t \in Tasks : AnalyzeRaise(t)
    \/ RunAnalysis(AsyncCalls, {"q1"}, {FALSE})
SpecAsync == Init /\ [][NextAsync]_vars

NextOther == RunAnalysis(OtherCalls, {"q1"}, {FALSE})
SpecOther == Init /\ [][NextOther]_vars

\* direct calls of the agent with a session id, an empty one, or none
SessionArgs == {None, "", "s1"}
NextDirect == AnalyzeSync(AsyncCalls, Queries, SessionArgs)
SpecDirect == Init /\ [][NextDirect]_vars

NextKeep == RunAnalysis(KeepCalls, {"q1"}, {FALSE})
SpecKeep == Init /\ [][NextKeep]_vars

NextBlank == RunAnalysis(BlankCalls, {"q1"}, {FALSE})
SpecBlank == Init /\ [][NextBlank]_vars

NextThread == RunAnalysisOnThread(ThreadCalls, {"q1"})
SpecThread == Init /\ [][NextThread]_vars

SpecReducers == Init /\ [][NextReducers]_vars

SpecRetrieval == Init /\ [][NextRetrieval]_vars

(***************************************************************************)
(* Properties.                                                             *)
(***************************************************************************)

\* C1: after any sequence of turns the task ids are exactly 1, 2, ..., N in
\* list order: the i-th task of the list has id i.
TaskIdsAreOneToN == \A i \in 1..Len(todos) : todos[i].id = i

\* C1 witness: after two or more turns the list holds three or more tasks that
\* were not all created by one write_todos call (another read of the clock
\* separates two neighbours)
TaskIdsWitness ==
    /\ turns >= 2
    /\ Len(todos) >= 3
    /\ \E i \in 2..Len(todos) : todos[i].created_at > todos[i - 1].created_at + 1

\* C2: first completion wins: once a task has a completed_at, no later step
\* changes it.
FirstCompletionWins ==
    [][\A i \in 1..Len(todos) :
           todos[i].completed_at # NoTime =>
               /\ i <= Len(todos')
               /\ todos'[i].completed_at = todos[i].completed_at]_vars

\* the tool calls of a message list, and the content of the ToolMessage that
\* answers a call (matched by tool_call_id)
ToolCallsIn(msgs) ==
    UNION {{msgs[i].tool_calls[k] : k \in 1..Len(msgs[i].tool_calls)} : i \in 1..Len(msgs)}
CacheCallsFor(msgs, series_id) ==
    {c \in ToolCallsIn(msgs) :
        /\ c.name \in {"fetch_fred_series", "calculate_statistics"}
        /\ c.args.series_id = series_id}
OwnResult(msgs, call) ==
    (CHOOSE m \in {msgs[i] : i \in 1..Len(msgs)} :
        m.type = "tool" /\ m.tool_call_id = call.id).content
HasErrorKey(content) ==
    /\ content.fmt = "json"
    /\ content.value.tag = "object"
    /\ "error" \in DOMAIN content.value.dict
\* the cache entry of a series: <<value>>, or <<>> when the key is absent
CacheEntry(dc, series_id) ==
    IF HasKey(dc, series_id) THEN <<Lookup(dc, series_id)>> ELSE <<>>
SeriesIds == {"GDP", "UNRATE"}

\* C3: cache integrity: when a turn folds a log in which series S is fetched
\* or analysed and every such call's own result carries an error key, the cache
\* entry of S after the fold equals the entry before it.  (The claim asks this
\* of every failed call, whatever else the log holds; the formula asks it only
\* of logs in which no call for S succeeded, which the claim implies.)
CacheIntegrity ==
    [][\A s \in SeriesIds :
          (/\ invocation' = "returned"
           /\ CacheCallsFor(messages', s) # {}
           /\ \A c \in CacheCallsFor(messages', s) : HasErrorKey(OwnResult(messages', c)))
          => CacheEntry(data_cache', s) = CacheEntry(data_cache, s)]_vars

\* C4: when a fold writes the cache entry of series S, the value written is the
\* parsed result payload of a call of that log for S.
CachedPayloadIsOwn ==
    [][\A s \in SeriesIds :
          CacheEntry(data_cache', s) # CacheEntry(data_cache, s)
          => \E c \in CacheCallsFor(messages', s) :
                /\ json_loads(OwnResult(messages', c)).ok
                /\ ~HasErrorKey(OwnResult(messages', c))
                /\ CacheEntry(data_cache', s) =
                       <<json_loads(OwnResult(messages', c)).data>>]_vars

\* C5: file upsert: a file of the table keeps its created_at through every later
\* step (a later write of the same name replaces the content only).
CreatedAtPreserved ==
    [][\A i \in 1..Len(files) :
           /\ i <= Len(files')
           /\ files'[i].k = files[i].k
           /\ files'[i].v.created_at = files[i].v.created_at]_vars

\* the file names of the model that contain "report" in some letter case
ReportNames == {report_draft, Report_Final}
MatchingFiles(fl) == {i \in 1..Len(fl) : fl[i].k \in ReportNames}
FirstMatching(fl) == CHOOSE i \in MatchingFiles(fl) : \A j \in MatchingFiles(fl) : i <= j

\* C6: report selection: the report of a success result is the content of the
\* first file, in file-table order, whose name contains "report" in any letter
\* case, and is absent when there is none; and a file never changes its place
\* in the file table, whatever is written later.
ReportSelection ==
    /\ [](result.success /\ "report" \in DOMAIN result =>
            IF MatchingFiles(files) = {}
            THEN result.report = None
            ELSE result.report = files[FirstMatching(files)].v.content)
    /\ [][\A i \in 1..Len(files) : i <= Len(files') /\ files'[i].k = files[i].k]_vars

\* C6 witness: "Report2" was written first, "report1" second, then "Report2" was
\* overwritten; the report is the content of "Report2", still the first file
ReportSelectionWitness ==
    /\ Len(files) = 2
    /\ files[1].k = Report_Final
    /\ files[2].k = report_draft
    /\ files[1].v.created_at > files[2].v.created_at
    /\ files[1].v.content # files[2].v.content
    /\ result.success
    /\ result.report = files[1].v.content

\* C7: a turn whose collaborator invocation raised, or whose stream yielded
\* nothing, leaves the task list, the file table and the data cache as they were.
FailedInvocationLeavesSnapshot ==
    [][(op' \in {"run_analysis", "run_analysis_async"}
        /\ turns' = turns + 1
        /\ invocation' \in {"raised", "silent"})
       => UNCHANGED <<todos, files, data_cache>>]_vars

\* C7 witness: the collaborator raised in a synchronous turn that started from a
\* snapshot holding tasks and a file, and the caller got the failure result
FailedInvocationWitness ==
    /\ op = "run_analysis"
    /\ invocation = "raised"
    /\ Len(todos) > 0
    /\ Len(files) > 0
    /\ ~result.success
    /\ result.error \in CollaboratorErrors

\* C8: the fold never fails the turn: whenever the collaborator invocation
\* returned, the agent's result is a success result.
FoldNeverFailsTurn ==
    (invocation = "returned" /\ "query" \in DOMAIN result) => result.success

\* C9: sessions have independent snapshots: the snapshot a newly constructed
\* system starts its first turn from is empty.
NewSessionStartsEmpty ==
    op = "new_system" => (todos = <<>> /\ files = <<>> /\ data_cache = <<>>)

\* C10: every failure result carries an error string and echoes the query and
\* the session id of the caller.
FailureEchoesQueryAndSession ==
    (op \in {"run_analysis", "run_analysis_async"} /\ ~result.success) =>
        /\ {"error", "query", "session_id"} \subseteq DOMAIN result
        /\ result.query \in Queries
        /\ result.session_id = session_id

\* the tool calls of a message list, in the order the fold visits them
RECURSIVE ToolCallSeq(_, _)
ToolCallSeq(msgs, i) ==
    IF i > Len(msgs) THEN <<>>
    ELSE msgs[i].tool_calls \o ToolCallSeq(msgs, i + 1)

\* the fold of a list of tool calls: the tables after _process_result has run
\* on one AI message that carries them
FoldCalls(td, fl, dc, now, calls) ==
    process_result(td, fl, dc, now, [messages |-> <<AIMessage(PlainText(""), calls)>>])

\* call i of the log is an update_todo whose id no task has at the moment the
\* fold reaches it
AddressesAbsentTask(td, fl, dc, now, calls, i) ==
    /\ calls[i].name = "update_todo"
    /\ ~\E k \in 1..Len(FoldCalls(td, fl, dc, now, SubSeq(calls, 1, i - 1)).todos) :
           FoldCalls(td, fl, dc, now, SubSeq(calls, 1, i - 1)).todos[k].id
               = Get(calls[i].args, "todo_id", NoId)

RECURSIVE WithoutAbsentUpdates(_, _, _, _, _, _)
\* the log without its update_todo calls that address an absent task
WithoutAbsentUpdates(td, fl, dc, now, calls, i) ==
    IF i > Len(calls) THEN <<>>
    ELSE (IF AddressesAbsentTask(td, fl, dc, now, calls, i) THEN <<>> ELSE <<calls[i]>>)
         \o WithoutAbsentUpdates(td, fl, dc, now, calls, i + 1)

\* C11: an update_todo whose task id no task has at the moment it is folded
\* (an id that a later write_todos of the same log creates included) is a
\* no-op: a turn leaves the task list, the file table and the data cache
\* exactly as the fold of its log without those calls leaves them, and the
\* turn fails only if that shorter log fails.
UnknownTaskIsNoOp ==
    [][(op' = "run_analysis" /\ invocation' = "returned") =>
         LET kept == WithoutAbsentUpdates(todos, files, data_cache, clock,
                                          ToolCallSeq(messages', 1), 1)
             st == FoldCalls(todos, files, data_cache, clock, kept)
         IN /\ todos' = st.todos
            /\ files' = st.files
            /\ data_cache' = st.data_cache
            /\ result'.success = ~st.raised]_vars

\* C11 witness: the last log was update_todo(2, completed) followed by a
\* write_todos of one task, folded into a list of one task: task 2, created
\* after the update, is pending and the turn succeeded
UnknownTaskWitness ==
    /\ op = "run_analysis"
    /\ Len(ToolCallSeq(messages, 1)) = 2
    /\ ToolCallSeq(messages, 1)[1].name = "update_todo"
    /\ ToolCallSeq(messages, 1)[1].args.todo_id = 2
    /\ ToolCallSeq(messages, 1)[2] = ToolCall(write_todos(JList(<<"a">>)), 2)
    /\ Len(todos) = 2
    /\ todos[2].status = "pending"
    /\ todos[2].completed_at = NoTime
    /\ result.success

\* the positions of the log at which an update_todo that carries notes reaches
\* task id (a task present when the fold reaches the call)
NotesUpdates(td, fl, dc, now, calls, id) ==
    {p \in 1..Len(calls) :
        /\ calls[p].name = "update_todo"
        /\ Get(calls[p].args, "todo_id", NoId) = id
        /\ "notes" \in DOMAIN calls[p].args
        /\ ~AddressesAbsentTask(td, fl, dc, now, calls, p)}
LastOf(ps) == CHOOSE p \in ps : \A q \in ps : q <= p
NotesOf(todo) == Get(todo, "notes", None)

\* C12: notes are last-write-wins: after a turn, the notes of a task are the
\* notes of the last update_todo of the log that carried notes for it, whatever
\* the task's status; a task no such call addressed keeps the notes it had.
NotesLastWriteWins ==
    [][(op' = "run_analysis" /\ invocation' = "returned") =>
         \A i \in 1..Len(todos') :
            LET calls == ToolCallSeq(messages', 1)
                ups == NotesUpdates(todos, files, data_cache, clock, calls, i)
            IN IF ups = {}
               THEN NotesOf(todos'[i]) = (IF i <= Len(todos) THEN NotesOf(todos[i]) ELSE None)
               ELSE NotesOf(todos'[i]) = calls[LastOf(ups)].args.notes]_vars

\* the number of tasks the write_todos calls before position p of the log create
RECURSIVE TasksCreatedBefore(_, _)
TasksCreatedBefore(calls, p) ==
    IF p <= 1 THEN 0
    ELSE TasksCreatedBefore(calls, p - 1)
         + (IF calls[p - 1].name = "write_todos" /\ calls[p - 1].args.tasks.tag = "list"
            THEN Len(calls[p - 1].args.tasks.items) ELSE 0)
\* the update_todo calls for task id that come after the entry that created it
\* (n tasks, with ids 1..n, exist before the log)
UpdatesAfterCreation(calls, id, n) ==
    {p \in 1..Len(calls) :
        /\ calls[p].name = "update_todo"
        /\ calls[p].args.todo_id = id
        /\ id <= n + TasksCreatedBefore(calls, p)}
WritesOf(calls, filename) ==
    {p \in 1..Len(calls) : calls[p].name = "write_file" /\ calls[p].args.filename = filename}

\* C13: entries are folded in log order (messages in order, tool calls of a
\* message in order): after a turn, the status of a task is the status of the
\* last update_todo for it among those that follow its creation, and its status
\* from before (pending for a new task) when there is none; the content of a
\* file is the content of the last write_file of that name, and the file is as
\* before when there is none.
EntriesFoldInLogOrder ==
    [][(op' = "run_analysis" /\ invocation' = "returned") =>
         LET calls == ToolCallSeq(messages', 1) IN
         /\ Len(todos') = Len(todos) + TasksCreatedBefore(calls, Len(calls) + 1)
         /\ \A i \in 1..Len(todos') :
               LET ups == UpdatesAfterCreation(calls, i, Len(todos)) IN
               todos'[i].status =
                   IF ups # {} THEN calls[LastOf(ups)].args.status
                   ELSE IF i <= Len(todos) THEN todos[i].status ELSE "pending"
         /\ \A f \in {notes_md, report_draft, Report_Final} :
               LET ws == WritesOf(calls, f) IN
               IF ws # {}
               THEN /\ HasKey(files', f)
                    /\ Lookup(files', f).content = calls[LastOf(ws)].args.content
               ELSE CacheEntry(files', f) = CacheEntry(files, f)]_vars

\* C13 witness: one AI message carried write_todos, update_todo(1, completed)
\* and update_todo(1, in_progress), in that order: task 1 is in_progress, the
\* later status, and carries the completion time the earlier update set
LogOrderWitness ==
    /\ op = "run_analysis"
    /\ \E m \in 1..Len(messages) :
          /\ Len(messages[m].tool_calls) = 3
          /\ messages[m].tool_calls[1].name = "write_todos"
          /\ messages[m].tool_calls[2] = ToolCall(update_todo(1, "completed"), 2)
          /\ messages[m].tool_calls[3] = ToolCall(update_todo(1, "in_progress"), 3)
    /\ Len(todos) = 1
    /\ todos[1].status = "in_progress"
    /\ todos[1].completed_at # NoTime

\* task t takes the last step of its turn, its stream having ended
EndsTurn(t) ==
    /\ inflight[t].pc = "streaming"
    /\ inflight'[t].pc = "idle"
    /\ op' = "analyze_end"
    /\ invocation' = "returned"

\* C14: the asynchronous turn folds the complete log of the streamed run: it
\* leaves the task list, the file table and the data cache as the synchronous
\* turn leaves them when the collaborator returns the same messages.
AsyncFoldsCompleteLog ==
    [][\A t \in Tasks :
          EndsTurn(t) =>
            LET sync == analyze_sync(todos, files, data_cache, clock, inflight[t].query,
                                     inflight[t].sid, Returned(inflight[t].stream.messages))
            IN /\ todos' = sync.todos
               /\ files' = sync.files
               /\ data_cache' = sync.data_cache]_vars

\* C15: with several asynchronous turns in flight, a turn touches the tables
\* only in its last step, which folds and formats in one piece: the steps in
\* which a turn starts or is handed a chunk leave the tables alone; the tables
\* after a turn's last step are the fold of what that turn folds applied to the
\* tables as the step before left them (whatever turns finished since it
\* started); and the result lists exactly the tables as that fold left them.
AsyncFoldIsOneStep ==
    [][/\ op' \in {"analyze_start", "analyze_chunk"} => UNCHANGED <<todos, files, data_cache>>
       /\ \A t \in Tasks :
             EndsTurn(t) =>
               LET st == process_result(todos, files, data_cache, clock,
                                        inflight[t].received[Len(inflight[t].received)])
               IN /\ todos' = st.todos
                  /\ files' = st.files
                  /\ data_cache' = st.data_cache
                  /\ result'.success
                  /\ result'.completed_tasks = CompletedTasks(todos')
                  /\ result'.pending_tasks = PendingTasks(todos')
                  /\ result'.files_created = Keys(files')
                  /\ result'.data_sources = Keys(data_cache')
                  /\ result'.report = ReportContent(files')]_vars

\* C15 witness: a turn has just ended while another turn, started before that
\* end, is suspended with part of its stream received; the tables hold a task
\* and a file, and the result of the turn that ended lists them
AsyncFoldWitness ==
    /\ op = "analyze_end"
    /\ invocation = "returned"
    /\ \E t \in Tasks :
          /\ inflight[t].pc = "streaming"
          /\ Len(inflight[t].received) > 0
          /\ Len(inflight[t].received) < Len(inflight[t].stream.chunks)
    /\ Len(todos) > 0
    /\ Len(files) > 0
    /\ result.success
    /\ Len(result.pending_tasks) = Len(todos)
    /\ result.files_created = Keys(files)

\* C16: a synchronous turn in which the collaborator made no tool call, only a
\* text answer, leaves the task list, the file table and the data cache equal
\* to what they were.
EmptyLogChangesNothing ==
    [][(op' = "run_analysis" /\ invocation' = "returned"
        /\ ToolCallSeq(messages', 1) = <<>>)
       => UNCHANGED <<todos, files, data_cache>>]_vars

\* C16 witness: the collaborator answered a request without a tool call (two
\* messages: the request and the answer) in a session that holds tasks and a
\* file, and the turn succeeded
EmptyLogWitness ==
    /\ op = "run_analysis"
    /\ invocation = "returned"
    /\ Len(messages) = 2
    /\ ToolCallSeq(messages, 1) = <<>>
    /\ Len(todos) > 0
    /\ Len(files) > 0
    /\ result.success
    /\ result.total_messages = 2

\* the tool names _process_result has a branch for
FoldedNames ==
    {"write_todos", "update_todo", "write_file", "fetch_fred_series", "calculate_statistics"}
CacheNames == {"fetch_fred_series", "calculate_statistics"}
NamesOf(calls) == {calls[p].name : p \in 1..Len(calls)}

NthOf(ps, k) == CHOOSE i \in ps : Cardinality({j \in ps : j < i}) = k - 1
\* list is the tasks of td at the positions ps, in increasing position
ListsPositions(list, td, ps) ==
    /\ Len(list) = Cardinality(ps)
    /\ \A k \in 1..Len(list) : list[k] = td[NthOf(ps, k)]

\* C18: in a success result completed_tasks and pending_tasks partition the
\* task list: completed_tasks is the tasks whose status is completed,
\* pending_tasks the tasks of every other status, each in task-list order, and
\* every task is in exactly one of the two.
TasksArePartitioned ==
    (result.success /\ "completed_tasks" \in DOMAIN result) =>
        LET done == {i \in 1..Len(todos) : todos[i].status = "completed"}
            rest == {i \in 1..Len(todos) : todos[i].status # "completed"}
        IN /\ ListsPositions(result.completed_tasks, todos, done)
           /\ ListsPositions(result.pending_tasks, todos, rest)
           /\ \A i \in 1..Len(todos) :
                 Cardinality({k \in 1..Len(result.completed_tasks) :
                                 result.completed_tasks[k].id = todos[i].id})
                 + Cardinality({k \in 1..Len(result.pending_tasks) :
                                   result.pending_tasks[k].id = todos[i].id}) = 1

\* C18 witness: task 1 is in progress and task 2 is completed; the result lists
\* task 2 as the one completed task and task 1 as the one pending task
TasksPartitionWitness ==
    /\ result.success
    /\ Len(todos) = 2
    /\ todos[1].status = "in_progress"
    /\ todos[2].status = "completed"
    /\ result.completed_tasks = <<todos[2]>>
    /\ result.pending_tasks = <<todos[1]>>

\* C19: in every reachable state every task's status is one of pending,
\* in_progress, completed, whatever status the update_todo calls carried.
StatusInDomain ==
    \A i \in 1..Len(todos) : todos[i].status \in {"pending", "in_progress", "completed"}

\* the task ids the update_todo calls of a log address
AddressedIds(calls) ==
    {Get(calls[p].args, "todo_id", NoId) : p \in {q \in 1..Len(calls) : calls[q].name = "update_todo"}}

\* C20: a task keeps its place, id, description and created_at through every
\* step; and a turn whose log holds update_todo calls only leaves the length of
\* the task list, every task it does not address, the file table and the data
\* cache as they were.
UpdateTodoFrame ==
    [][/\ \A i \in 1..Len(todos) :
             /\ i <= Len(todos')
             /\ todos'[i].id = todos[i].id
             /\ todos'[i].task = todos[i].task
             /\ todos'[i].created_at = todos[i].created_at
       /\ (op' = "run_analysis" /\ invocation' = "returned"
           /\ NamesOf(ToolCallSeq(messages', 1)) = {"update_todo"}) =>
             /\ Len(todos') = Len(todos)
             /\ \A i \in 1..Len(todos) :
                   todos[i].id \notin AddressedIds(ToolCallSeq(messages', 1))
                       => todos'[i] = todos[i]
             /\ UNCHANGED <<files, data_cache>>]_vars

\* C20 witness: the last log was one update_todo that completed task 1 of two
\* tasks, in a session that holds a file: task 1 is completed, task 2 is as
\* write_todos created it, right after task 1
UpdateTodoFrameWitness ==
    /\ op = "run_analysis"
    /\ NamesOf(ToolCallSeq(messages, 1)) = {"update_todo"}
    /\ AddressedIds(ToolCallSeq(messages, 1)) = {1}
    /\ Len(todos) = 2
    /\ todos[1].status = "completed"
    /\ todos[1].completed_at > todos[2].created_at
    /\ todos[2] = NewTodo(2, "b", todos[1].created_at + 1)
    /\ Len(files) = 1

\* what a snapshot holds, timestamps aside
TasksOf(td) == [i \in 1..Len(td) |-> [id |-> td[i].id, task |-> td[i].task, status |-> td[i].status]]
FilesOf(fl) == [i \in 1..Len(fl) |-> [k |-> fl[i].k, content |-> fl[i].v.content]]
\* the same snapshot at another time: every timestamp it holds is d later
LaterTodos(td, d) ==
    [i \in 1..Len(td) |->
        [td[i] EXCEPT !.created_at = @ + d,
                      !.completed_at = IF @ = NoTime THEN NoTime ELSE @ + d]]
LaterFiles(fl, d) ==
    [i \in 1..Len(fl) |-> [k |-> fl[i].k, v |-> [fl[i].v EXCEPT !.created_at = @ + d]]]
Delays == {1, 2}

\* C21: the fold is deterministic: a second run that folds the log of a turn
\* into a snapshot equal to the one the turn started from, at another time
\* (every timestamp of the snapshot and the clock moved by d), ends with the
\* same tasks (id, description, status), the same files (name, content, order)
\* and the same cache as the turn did, and fails if and only if the turn did.
FoldIsDeterministic ==
    [][(op' = "run_analysis" /\ invocation' = "returned") =>
         \A d \in Delays :
            LET st == process_result(LaterTodos(todos, d), LaterFiles(files, d), data_cache,
                                     clock + d, [messages |-> messages'])
            IN /\ TasksOf(st.todos) = TasksOf(todos')
               /\ FilesOf(st.files) = FilesOf(files')
               /\ st.data_cache = data_cache'
               /\ st.raised = ~result'.success]_vars

\* C21 witness: a second or later turn folded a log of tool calls and the
\* snapshot holds tasks and a file
FoldDeterministicWitness ==
    /\ op = "run_analysis"
    /\ invocation = "returned"
    /\ turns >= 2
    /\ Len(ToolCallSeq(messages, 1)) >= 1
    /\ Len(todos) > 0
    /\ Len(files) > 0
    /\ result.success

\* the context holds the planning instruction, and holds it first
HasPlanning(context) == \E i \in 1..Len(context) : context[i] = PLANNING_PROMPT
StartsWithPlanning(context) == Len(context) > 0 /\ context[1] = PLANNING_PROMPT
IsTurn(name) == name \in {"run_analysis", "run_analysis_async", "analyze_start"}

\* C22: the context built for a turn starts with the planning instruction if
\* and only if the task list is empty when the turn starts, and holds the
\* instruction nowhere else; once a task exists, no later turn's context holds
\* the instruction.
PlanningIffNoTasks ==
    [][(IsTurn(op') /\ turns' = turns + 1) =>
          /\ StartsWithPlanning(sent'.context) <=> (Len(todos) = 0)
          /\ HasPlanning(sent'.context) => StartsWithPlanning(sent'.context)
          /\ Len(todos) > 0 => Len(todos') > 0]_vars

\* C22 witness: the last turn started with a task list in which every task was
\* completed, and its context lists the completed task and no planning
\* instruction
PlanningWitness ==
    /\ op = "run_analysis"
    /\ turns >= 2
    /\ \E i \in 1..Len(sent.context) : sent.context[i].kind = "completed"
    /\ \A i \in 1..Len(sent.context) : sent.context[i].kind # "pending"
    /\ ~HasPlanning(sent.context)

\* C23: the session id of a success result and the thread id handed to the
\* collaborator equal the session id the caller supplied, or "default" when the
\* caller supplied none.
SessionIdOrDefault ==
    op = "analyze_sync" =>
        LET expected == IF sent.session_id = None THEN "default" ELSE sent.session_id
        IN /\ sent.thread_id = expected
           /\ result.success => result.session_id = expected

\* C23 as the code has it: an empty session id counts as none.
SessionIdOrDefaultWhenFalsy ==
    op = "analyze_sync" =>
        LET expected == IF sent.session_id \in {None, ""} THEN "default"
                        ELSE sent.session_id
        IN /\ sent.thread_id = expected
           /\ result.success => result.session_id = expected

\* C23 witness: a call with the empty string as session id succeeded; thread
\* and result carry "default"
SessionIdWitness ==
    /\ op = "analyze_sync"
    /\ sent.session_id = ""
    /\ sent.thread_id = "default"
    /\ result.success
    /\ result.session_id = "default"

\* no two items of a TODO list have the same task text
NoDuplicateTasks(list) ==
    \A i, j \in 1..Len(list) : list[i].task = list[j].task => i = j

\* C24: add_todos avoids duplicates by task text: merged into a list without
\* duplicates, any update (one that repeats a task text, or one merged into the
\* empty list, included) gives a list without duplicates.
AddTodosAvoidsDuplicates ==
    [][(op' = "add_todos" /\ NoDuplicateTasks(channels.todos))
       => NoDuplicateTasks(channels'.todos)]_vars

\* C30: should_continue is a latch: it starts True and is merged by OR, so it
\* is True after every sequence of updates, updates that write False included;
\* and no update makes iteration_count or last_updated smaller.
ShouldContinueIsLatch ==
    /\ [](channels.should_continue = TRUE)
    /\ [][/\ channels'.iteration_count >= channels.iteration_count
          /\ channels'.last_updated >= channels.last_updated]_vars

\* C30 witness: the last update wrote should_continue = False, after updates
\* that raised iteration_count and last_updated; should_continue is True
LatchWitness ==
    /\ op = "update_should_continue"
    /\ node_output = [key |-> "should_continue", value |-> FALSE]
    /\ channels.should_continue = TRUE
    /\ channels.iteration_count > 0
    /\ channels.last_updated > create_initial_state.last_updated

\* C25: DataRetrievalAgent.run invokes the LLM at most 5 times whatever the
\* LLM answers, stops at the first response without tool calls (it is running
\* only while every response so far carried tool calls, and it has returned
\* only after a response without tool calls or after the fifth response), and
\* in one pass executes at most one tool per tool call.
RetrievalTerminates ==
    /\ retrieval.invocations <= RetrievalIterations
    /\ retrieval.invoked <= retrieval.tool_calls
    /\ (retrieval.pc = "running" /\ retrieval.invocations > 0) =>
          (retrieval.tool_calls > 0 /\ retrieval.invocations < RetrievalIterations)
    /\ retrieval.pc = "returned" =>
          (retrieval.tool_calls = 0 \/ retrieval.invocations = RetrievalIterations)

\* C25 witness: run returned after five responses that all carried tool calls;
\* the last pass executed fewer tools than the response had tool calls (a call
\* named a tool the agent does not have), and a series was retrieved
RetrievalWitness ==
    /\ retrieval.pc = "returned"
    /\ retrieval.invocations = RetrievalIterations
    /\ retrieval.tool_calls = 2
    /\ retrieval.invoked = 1
    /\ Len(retrieval.series_retrieved) > 0

\* the keys of an insertion-ordered dict, as a set
KeySet(d) == {d[i].k : i \in 1..Len(d)}

StatusesOf(calls) ==
    {Get(calls[p].args, "status", None) : p \in {q \in 1..Len(calls) : calls[q].name = "update_todo"}}

\* C27: a task that has a completed_at has one after every step; and a turn
\* whose update_todo calls all carry a status other than completed leaves every
\* completed_at as it was while the task it addresses gets the new status, so
\* that a result can list a task with a completed_at among the pending tasks.
CompletedAtIsKept ==
    [][/\ \A i \in 1..Len(todos) :
             todos[i].completed_at # NoTime =>
                 (i <= Len(todos') /\ todos'[i].completed_at # NoTime)
       /\ (op' = "run_analysis" /\ invocation' = "returned"
           /\ "completed" \notin StatusesOf(ToolCallSeq(messages', 1))) =>
             /\ \A i \in 1..Len(todos) : todos'[i].completed_at = todos[i].completed_at
             /\ \A i \in 1..Len(todos) :
                   (todos[i].id \in AddressedIds(ToolCallSeq(messages', 1))
                    /\ todos[i].completed_at # NoTime /\ result'.success)
                   => \E k \in 1..Len(result'.pending_tasks) :
                         /\ result'.pending_tasks[k].id = todos[i].id
                         /\ result'.pending_tasks[k].completed_at = todos[i].completed_at]_vars

\* C27 witness: the last log was update_todo(1, in_progress) alone, on a task
\* completed in an earlier turn; the result lists task 1 as pending, in
\* progress and with its completed_at
ReopenedTaskWitness ==
    /\ op = "run_analysis"
    /\ turns >= 2
    /\ Len(ToolCallSeq(messages, 1)) = 1
    /\ ToolCallSeq(messages, 1)[1] = ToolCall(update_todo(1, "in_progress"), 1)
    /\ result.success
    /\ Len(result.pending_tasks) > 0
    /\ result.pending_tasks[1].id = 1
    /\ result.pending_tasks[1].status = "in_progress"
    /\ result.pending_tasks[1].completed_at # NoTime

\* a write_file call whose filename or content is missing or empty
IsBlankWrite(call) ==
    /\ call.name = "write_file"
    /\ \/ "filename" \notin DOMAIN call.args
       \/ "content" \notin DOMAIN call.args
       \/ call.args.filename = <<>>
       \/ call.args.content = ""

\* C28: a write_file call with a missing or empty filename or content is a
\* no-op: a turn whose write_file calls are all of that kind leaves the file
\* table as it was (no file created, no existing file changed or emptied), and
\* any turn leaves the file table as the fold of its log without those calls.
BlankWriteIsNoOp ==
    [][(op' = "run_analysis" /\ invocation' = "returned") =>
         LET calls == ToolCallSeq(messages', 1)
             kept == SelectSeq(calls, LAMBDA c : ~IsBlankWrite(c))
         IN /\ kept = <<>> => files' = files
            /\ files' = FoldCalls(todos, files, data_cache, clock, kept).files
            /\ \A i \in 1..Len(files') : files'[i].v.content \notin {"", None}
            /\ result'.success]_vars

\* C28 witness: the last log was write_file("notes", "") alone, and the file
\* "notes" written by an earlier turn still holds its content "c1"
BlankWriteWitness ==
    /\ op = "run_analysis"
    /\ turns >= 2
    /\ Len(ToolCallSeq(messages, 1)) = 1
    /\ ToolCallSeq(messages, 1)[1] = ToolCall(write_file(notes_md, ""), 1)
    /\ HasKey(files, notes_md)
    /\ Lookup(files, notes_md).content = "c1"
    /\ result.success

\* the descriptions the write_todos calls of a log carry, in log order
RECURSIVE DescriptionsOf(_, _)
DescriptionsOf(calls, p) ==
    IF p > Len(calls) THEN <<>>
    ELSE (IF calls[p].name = "write_todos" /\ calls[p].args.tasks.tag = "list"
          THEN calls[p].args.tasks.items ELSE <<>>)
         \o DescriptionsOf(calls, p + 1)

\* C29: folding is not idempotent for task creation: a turn appends one task,
\* with the next id, for every description of every write_todos call of the log
\* it folds, whether or not the list already holds a task of that description;
\* a log that holds the messages of an earlier turn again appends their tasks
\* again.
FoldRepeatsTaskCreation ==
    [][(op' = "run_analysis" /\ invocation' = "returned") =>
         LET created == DescriptionsOf(ToolCallSeq(messages', 1), 1) IN
         /\ Len(todos') = Len(todos) + Len(created)
         /\ \A k \in 1..Len(created) :
               /\ todos'[Len(todos) + k].task = created[k]
               /\ todos'[Len(todos) + k].id = Len(todos) + k]_vars

\* C29 witness: the thread holds one write_todos call, of the one description
\* "a", and two turns have folded it: the list holds two tasks "a", ids 1 and 2
RepeatedCreationWitness ==
    /\ op = "run_analysis"
    /\ turns = 2
    /\ DescriptionsOf(ToolCallSeq(messages, 1), 1) = <<"a">>
    /\ Len(todos) = 2
    /\ todos[1].task = "a"
    /\ todos[2].task = "a"
    /\ todos[2].id = 2

====
